---- MODULE Spec2Model ----
(***************************************************************************)
(* Model of the Kostal Plenticore polling/caching coordinator              *)
(* (homeassistant/components/kostal_plenticore/__init__.py, PlenticoreApi).*)
(*                                                                         *)
(* Every coroutine of PlenticoreApi is one action.  The transport client   *)
(* is the environment: each call it receives either succeeds or raises,    *)
(* chosen by the input record `o` (o.failAt names the call that raises),   *)
(* and the data it returns (catalogs, values) is drawn from small sets.    *)
(* A coroutine is evaluated in state-passing style over a record holding   *)
(* the fields of the object it may assign, so that the assignments made    *)
(* before an exception is raised are kept, exactly as in the code.         *)
(***************************************************************************)
EXTENDS Integers, Sequences, FiniteSets, TLC

VARIABLES
    login,                 \* self._login
    registered,            \* self._registered_entities (list, duplicates kept)
    enabled,               \* entity.enabled of every entity object
    available,             \* entity.available, for the entities it was set on
    existing,              \* self._existing_data_ids
    data,                  \* self._data
    last_setting_update,   \* self._last_setting_update
    update_request,        \* self._update_request
    process_request,       \* self._process_request
    setting_request,       \* self._setting_request
    now,                   \* utcnow()
    last,                  \* history: the operation that ran last
    ens,                   \* history: how the last _ensure_login since the last logout() ended
    forced,                \* history: a write succeeded, and no tick since fetched settings or raised
    hb,                    \* history: heartbeat tick counter and the ticks that fetched settings
    co,                    \* the coroutines in flight: where each is suspended
    coordinator_data,      \* coordinator.data: what the listeners read ("None", {} or self._data)
    flow                   \* the config flow: configured hosts and the last user step

vars == <<login, registered, enabled, available, existing, data,
          last_setting_update, update_request, process_request,
          setting_request, now, last, ens, forced, hb, co, coordinator_data, flow>>

-----------------------------------------------------------------------------
(* Program constants *)

SCOPE_PROCESS_DATA == "process"
SCOPE_SETTING == "setting"
Scopes == {SCOPE_PROCESS_DATA, SCOPE_SETTING}

Heartbeat == 10
SlowThreshold == 300
NoTimestamp == -1

(* Bounds of the model *)

MaxRegistered == 2
MaxNow == 300
MaxTick == 32

-----------------------------------------------------------------------------
(* The environment: entity objects, the device's catalogs and values *)

WriteTargets == {<<"m1", "x">>, <<"m1", "y">>}
Values == {"v"}
WriteValues == {"w"}

Entity ==
    [e1 |-> [scope |-> SCOPE_PROCESS_DATA, module_id |-> "m1", data_id |-> "a"],
     e2 |-> [scope |-> SCOPE_PROCESS_DATA, module_id |-> "m1", data_id |-> "b"],
     e3 |-> [scope |-> SCOPE_SETTING, module_id |-> "m1", data_id |-> "x"]]

Entities == DOMAIN Entity

EmptyDict == [k \in {} |-> {}]

FullCatalog ==
    [process |-> ("m1" :> {"a", "b"}), setting |-> ("m1" :> {"x", "y"})]
ReducedCatalog ==
    [process |-> ("m1" :> {"a"}), setting |-> ("m1" :> {"y"})]
DevCatalogs == {FullCatalog, ReducedCatalog}

TickCalls == {"login", "get_settings", "get_process_data", "device_info",
              "get_process_data_values", "get_setting_values"}
WriteCalls == {"login", "get_settings", "get_process_data", "device_info",
               "set_setting_values"}

TickOutcomes(cats) ==
    [failAt : TickCalls \cup {"none"}, cat : cats, v : Values]
WriteOutcomes(cats) ==
    [failAt : WriteCalls \cup {"none"}, cat : cats]

(* An outcome is an input only for the calls the operation makes: while    *)
(* logged in no login, catalog or device-info call is made, and a tick     *)
(* without consumers makes none.                                           *)
LoginCalls == {"login", "get_settings", "get_process_data", "device_info"}
Asked(o) == login => (o.failAt \notin LoginCalls /\ o.cat = FullCatalog)
Unasked(o) == o.failAt = "none" /\ o.cat = FullCatalog

(* The coroutines that may be in flight at once: the refreshes started by  *)
(* the heartbeat or by async_refresh, and a write_setting.  A coroutine    *)
(* is suspended at a transport call (pc names it, "idle" when none is      *)
(* running) with the request it passed to that call.                       *)
TickTasks == {"t1", "t2"}
WriteTask == "w"
Tasks == TickTasks \cup {WriteTask}
WriteArg == [module_id |-> "m1", setting_id |-> "x", value |-> "w"]

Suspended(pc, req) == [pc |-> pc, req |-> req, pre |-> {}]

(* The config flow: the hosts a user may submit and the ways the          *)
(* connection test may end.                                                *)
Hosts == {"h1", "h2", "h3", "h4"}
TestOutcomes == {"ok", "PlenticoreAuthenticationException", "ClientError",
                 "TimeoutError", "Exception"}
NoInput == "None"
NoErrors == [k \in {} |-> ""]
NoResult == [type |-> "none", errors |-> NoErrors, tested |-> "no", dup |-> FALSE]
CONF_NAME == "name"

Range(seq) == {seq[i] : i \in 1..Len(seq)}

DictUpdate(old, new) ==
    [k \in DOMAIN old \cup DOMAIN new |-> IF k \in DOMAIN new THEN new[k] ELSE old[k]]

-----------------------------------------------------------------------------
(* The fields a coroutine may assign, plus what it did *)

Begin ==
    [login |-> login, existing |-> existing, data |-> data,
     last_setting_update |-> last_setting_update,
     update_request |-> update_request,
     process_request |-> process_request,
     setting_request |-> setting_request,
     available |-> available, coordinator_data |-> coordinator_data,
     ok |-> TRUE, calls |-> <<>>, built |-> FALSE, fetchedP |-> FALSE,
     fetchedS |-> FALSE, stamped |-> FALSE, acked |-> FALSE, mid |-> data,
     ret |-> "none", notified |-> FALSE]

Call(s, c) == [s EXCEPT !.calls = Append(@, c)]
Raise(s) == [s EXCEPT !.ok = FALSE]

UpdateDeviceInfo(s, o) ==
    IF o.failAt = "device_info"
    THEN Raise(Call(s, "device_info"))
    ELSE Call(s, "device_info")

(* _udpate_existing_data that does not mark the requests stale *)
UdpateExistingDataKeepsRequest(s, o) ==
    IF o.failAt = "get_settings"
    THEN Raise(Call(s, "get_settings"))
    ELSE LET s1 == [Call(s, "get_settings") EXCEPT
                       !.existing[SCOPE_SETTING] = o.cat[SCOPE_SETTING]]
         IN  IF o.failAt = "get_process_data"
             THEN Raise(Call(s1, "get_process_data"))
             ELSE [Call(s1, "get_process_data") EXCEPT
                       !.existing[SCOPE_PROCESS_DATA] = o.cat[SCOPE_PROCESS_DATA]]

(* _udpate_existing_data that marks the requests stale before it queries *)
UdpateExistingDataStaleFirst(s, o) ==
    LET s0 == [s EXCEPT !.update_request = TRUE]
    IN  IF o.failAt = "get_settings"
        THEN Raise(Call(s0, "get_settings"))
        ELSE LET s1 == [Call(s0, "get_settings") EXCEPT
                           !.existing[SCOPE_SETTING] = o.cat[SCOPE_SETTING]]
             IN  IF o.failAt = "get_process_data"
                 THEN Raise(Call(s1, "get_process_data"))
                 ELSE [Call(s1, "get_process_data") EXCEPT
                           !.existing[SCOPE_PROCESS_DATA] = o.cat[SCOPE_PROCESS_DATA]]

UdpateExistingData(s, o) ==
    IF o.failAt = "get_settings"
    THEN Raise(Call(s, "get_settings"))
    ELSE LET s1 == [Call(s, "get_settings") EXCEPT
                       !.existing[SCOPE_SETTING] = o.cat[SCOPE_SETTING]]
         IN  IF o.failAt = "get_process_data"
             THEN Raise(Call(s1, "get_process_data"))
             ELSE [Call(s1, "get_process_data") EXCEPT
                       !.existing[SCOPE_PROCESS_DATA] = o.cat[SCOPE_PROCESS_DATA],
                       !.update_request = TRUE]

(* _ensure_login that leaves self._login unset after a successful login *)
EnsureLoginForgets(s, o) ==
    IF s.login
    THEN s
    ELSE IF o.failAt = "login"
         THEN Raise(Call(s, "login"))
         ELSE LET s1 == UdpateExistingData(Call(s, "login"), o)
              IN  IF ~s1.ok THEN s1 ELSE UpdateDeviceInfo(s1, o)

(* _ensure_login that sets self._login before the login call is awaited *)
EnsureLoginEarlyFlag(s, o) ==
    IF s.login
    THEN s
    ELSE LET s0 == [s EXCEPT !.login = TRUE]
         IN  IF o.failAt = "login"
             THEN Raise(Call(s0, "login"))
             ELSE LET s1 == UdpateExistingData(Call(s0, "login"), o)
                  IN  IF ~s1.ok THEN s1 ELSE UpdateDeviceInfo(s1, o)

EnsureLogin(s, o) ==
    IF s.login
    THEN s
    ELSE IF o.failAt = "login"
         THEN Raise(Call(s, "login"))
         ELSE LET s1 == UdpateExistingData(Call(s, "login"), o)
              IN  IF ~s1.ok
                  THEN s1
                  ELSE LET s2 == UpdateDeviceInfo(s1, o)
                       IN  IF ~s2.ok THEN s2 ELSE [s2 EXCEPT !.login = TRUE]

RECURSIVE BuildFrom(_, _, _, _)
BuildFrom(scope, exist, ents, acc) ==
    IF ents = <<>>
    THEN acc
    ELSE LET e == Head(ents)
             entity == Entity[e]
             acc1 ==
                 IF entity.scope = scope /\ enabled[e]
                 THEN IF /\ entity.module_id \in DOMAIN exist
                         /\ entity.data_id \in exist[entity.module_id]
                      THEN [request |->
                                DictUpdate(acc.request,
                                    entity.module_id :>
                                        Append(IF entity.module_id \in DOMAIN acc.request
                                               THEN acc.request[entity.module_id]
                                               ELSE <<>>, entity.data_id)),
                            available |-> DictUpdate(acc.available, e :> TRUE)]
                      ELSE [acc EXCEPT !.available = DictUpdate(@, e :> FALSE)]
                 ELSE acc
         IN  BuildFrom(scope, exist, Tail(ents), acc1)

BuildRequest(scope, s) ==
    BuildFrom(scope, s.existing[scope], registered,
              [request |-> EmptyDict, available |-> s.available])

BuildIfStale(s) ==
    IF s.update_request
    THEN LET p == BuildRequest(SCOPE_PROCESS_DATA, s)
             q == BuildRequest(SCOPE_SETTING, [s EXCEPT !.available = p.available])
         IN  [s EXCEPT !.process_request = p.request,
                       !.setting_request = q.request,
                       !.available = q.available,
                       !.update_request = FALSE,
                       !.built = TRUE]
    ELSE s

Response(request, v) ==
    [m \in DOMAIN request |-> [d \in Range(request[m]) |-> v]]

(* the process-data merge written into the settings scope *)
FetchProcessWrongScope(s, o) ==
    IF DOMAIN s.process_request # {}
    THEN IF o.failAt = "get_process_data_values"
         THEN Raise(Call(s, "get_process_data_values"))
         ELSE LET d == [s.data EXCEPT ![SCOPE_SETTING] =
                           DictUpdate(@, Response(s.process_request, o.v))]
              IN  [Call(s, "get_process_data_values") EXCEPT
                       !.data = d, !.mid = d, !.fetchedP = TRUE]
    ELSE s

FetchProcess(s, o) ==
    IF DOMAIN s.process_request # {}
    THEN IF o.failAt = "get_process_data_values"
         THEN Raise(Call(s, "get_process_data_values"))
         ELSE LET d == [s.data EXCEPT ![SCOPE_PROCESS_DATA] =
                           DictUpdate(@, Response(s.process_request, o.v))]
              IN  [Call(s, "get_process_data_values") EXCEPT
                       !.data = d, !.mid = d, !.fetchedP = TRUE]
    ELSE s

(* the slow-cadence comparison written with > instead of >= *)
FetchSettingStrict(s, o) ==
    IF \/ s.last_setting_update = NoTimestamp
       \/ now - s.last_setting_update > SlowThreshold
    THEN LET s1 == [s EXCEPT !.last_setting_update = now, !.stamped = TRUE]
         IN  IF DOMAIN s1.setting_request # {}
             THEN IF o.failAt = "get_setting_values"
                  THEN Raise(Call(s1, "get_setting_values"))
                  ELSE [Call(s1, "get_setting_values") EXCEPT
                            !.data[SCOPE_SETTING] =
                                DictUpdate(@, Response(s1.setting_request, o.v)),
                            !.fetchedS = TRUE]
             ELSE s1
    ELSE s

FetchSetting(s, o) ==
    IF \/ s.last_setting_update = NoTimestamp
       \/ now - s.last_setting_update >= SlowThreshold
    THEN LET s1 == [s EXCEPT !.last_setting_update = now, !.stamped = TRUE]
         IN  IF DOMAIN s1.setting_request # {}
             THEN IF o.failAt = "get_setting_values"
                  THEN Raise(Call(s1, "get_setting_values"))
                  ELSE [Call(s1, "get_setting_values") EXCEPT
                            !.data[SCOPE_SETTING] =
                                DictUpdate(@, Response(s1.setting_request, o.v)),
                            !.fetchedS = TRUE]
             ELSE s1
    ELSE s

(* `return {}` of line 175 and `return self._data` of line 204 *)
Return(s, value) == IF s.ok THEN [s EXCEPT !.ret = value] ELSE s

(* _fetch_data without the early return for an empty registry *)
FetchDataNoEarlyReturn(s, o) ==
    LET s1 == EnsureLogin(s, o)
    IN  IF ~s1.ok
        THEN s1
        ELSE LET s3 == FetchProcess(BuildIfStale(s1), o)
             IN  IF ~s3.ok THEN s3 ELSE Return(FetchSetting(s3, o), "_data")

(* _fetch_data that goes on to the settings check after a failed telemetry *)
(* fetch and raises the failure at the end of the tick                     *)
FetchDataIsolated(s, o) ==
    IF Len(registered) = 0
    THEN Return(s, "empty")
    ELSE LET s1 == EnsureLogin(s, o)
         IN  IF ~s1.ok
             THEN s1
             ELSE LET s3 == FetchProcess(BuildIfStale(s1), o)
                  IN  IF ~s3.ok
                      THEN Raise(FetchSetting([s3 EXCEPT !.ok = TRUE], o))
                      ELSE Return(FetchSetting(s3, o), "_data")

FetchData(s, o) ==
    IF Len(registered) = 0
    THEN Return(s, "empty")
    ELSE LET s1 == EnsureLogin(s, o)
         IN  IF ~s1.ok
             THEN s1
             ELSE LET s3 == FetchProcess(BuildIfStale(s1), o)
                  IN  IF ~s3.ok THEN s3 ELSE Return(FetchSetting(s3, o), "_data")

(* What the DataUpdateCoordinator base class does with the outcome of the  *)
(* update method: the value returned by a refresh that did not raise       *)
(* becomes coordinator.data and the listeners are notified; a refresh      *)
(* that raised leaves coordinator.data as it was.                          *)
Deliver(s) ==
    IF s.ok
    THEN [s EXCEPT !.coordinator_data = s.ret, !.notified = TRUE]
    ELSE s

(* async_set_updated_data(self._data), line 216 *)
SetUpdatedData(s) ==
    [s EXCEPT !.coordinator_data = "_data", !.notified = TRUE]

(* write_setting that stores the value before the transport write is awaited *)
WriteSettingEager(s, o, module_id, setting_id, value) ==
    LET s1 == EnsureLogin(s, o)
    IN  IF ~s1.ok
        THEN s1
        ELSE IF module_id \in DOMAIN s1.data[SCOPE_SETTING]
             THEN LET s2 == [s1 EXCEPT
                                !.data[SCOPE_SETTING][module_id] =
                                    DictUpdate(@, setting_id :> value)]
                  IN  IF o.failAt = "set_setting_values"
                      THEN Raise(Call(s2, "set_setting_values"))
                      ELSE SetUpdatedData(
                               [Call(s2, "set_setting_values") EXCEPT
                                   !.acked = TRUE,
                                   !.last_setting_update = NoTimestamp])
             ELSE Raise(s1)

WriteSetting(s, o, module_id, setting_id, value) ==
    LET s1 == EnsureLogin(s, o)
    IN  IF ~s1.ok
        THEN s1
        ELSE IF o.failAt = "set_setting_values"
             THEN Raise(Call(s1, "set_setting_values"))
             ELSE LET s2 == [Call(s1, "set_setting_values") EXCEPT !.acked = TRUE]
                  IN  IF module_id \in DOMAIN s2.data[SCOPE_SETTING]
                      THEN SetUpdatedData(
                               [s2 EXCEPT
                                   !.data[SCOPE_SETTING][module_id] =
                                       DictUpdate(@, setting_id :> value),
                                   !.last_setting_update = NoTimestamp])
                      ELSE Raise(s2)

-----------------------------------------------------------------------------
(* History kept for the properties *)

Hist(op, s, ret, arg) ==
    [op |-> op, ok |-> s.ok, ret |-> ret, calls |-> s.calls,
     fetchedP |-> s.fetchedP, fetchedS |-> s.fetchedS, acked |-> s.acked,
     notified |-> s.notified,
     mid |-> IF op = "tick" THEN s.mid ELSE s.data,
     arg |-> IF s.acked THEN arg ELSE <<>>]

Idle(op) == Hist(op, Begin, "none", <<>>)

Ensured(o) == IF EnsureLogin(Begin, o).ok THEN "ok" ELSE "fail"

Commit(s) ==
    /\ login' = s.login
    /\ existing' = s.existing
    /\ data' = s.data
    /\ last_setting_update' = s.last_setting_update
    /\ update_request' = s.update_request
    /\ process_request' = s.process_request
    /\ setting_request' = s.setting_request
    /\ available' = s.available
    /\ coordinator_data' = s.coordinator_data

-----------------------------------------------------------------------------
(* Initial state: PlenticoreApi.__init__ *)

Init ==
    /\ login = FALSE
    /\ registered = <<>>
    /\ enabled = [e \in Entities |-> TRUE]
    /\ available = [e \in {} |-> TRUE]
    /\ existing = [sc \in Scopes |-> EmptyDict]
    /\ data = [sc \in Scopes |-> EmptyDict]
    /\ last_setting_update = NoTimestamp
    /\ update_request = FALSE
    /\ process_request = EmptyDict
    /\ setting_request = EmptyDict
    /\ now = 0
    /\ coordinator_data = "None"
    /\ last = Idle("init")
    /\ ens = "none"
    /\ forced = FALSE
    /\ hb = [n |-> 0, fetched |-> {}, pre |-> TRUE]
    /\ co = [p \in Tasks |-> Suspended("idle", EmptyDict)]
    /\ flow = [configured |-> {}, user_input |-> NoInput, result |-> NoResult]

-----------------------------------------------------------------------------
(* Operations.  The flags of an entity object are state of the coordinator *)
(* only while it holds a reference to the object: unregistering drops the  *)
(* object, and a later registration is a newly constructed entity          *)
(* (sensor.py, PlenticoreProcessDataSensor.__init__).                      *)

RegisterEntity(e) ==
    /\ Len(registered) < MaxRegistered
    /\ registered' = Append(registered, e)
    /\ update_request' = TRUE
    /\ last' = Idle("other")
    /\ UNCHANGED <<login, enabled, available, existing, data, last_setting_update,
                   process_request, setting_request, now, ens, forced, hb, co,
                   coordinator_data, flow>>

(* unregister_entity that ends the session together with the registration *)
UnregisterEntityLogsOut(e) ==
    /\ registered' = SelectSeq(registered, LAMBDA x : x # e)
    /\ update_request' = TRUE
    /\ login' = FALSE
    /\ enabled' = [enabled EXCEPT ![e] = TRUE]
    /\ available' = [x \in DOMAIN available \ {e} |-> available[x]]
    /\ last' = Idle("other")
    /\ UNCHANGED <<existing, data, last_setting_update,
                   process_request, setting_request, now, ens, forced, hb, co,
                   coordinator_data, flow>>

UnregisterEntity(e) ==
    /\ registered' = SelectSeq(registered, LAMBDA x : x # e)
    /\ update_request' = TRUE
    /\ enabled' = [enabled EXCEPT ![e] = TRUE]
    /\ available' = [x \in DOMAIN available \ {e} |-> available[x]]
    /\ last' = Idle("other")
    /\ UNCHANGED <<login, existing, data, last_setting_update,
                   process_request, setting_request, now, ens, forced, hb, co,
                   coordinator_data, flow>>

SetEnabled(e, b) ==
    /\ e \in Range(registered)
    /\ enabled[e] # b
    /\ enabled' = [enabled EXCEPT ![e] = b]
    /\ last' = Idle("other")
    /\ UNCHANGED <<login, registered, available, existing, data, last_setting_update,
                   update_request, process_request, setting_request, now, ens,
                   forced, hb, co,
                   coordinator_data, flow>>

(* logout() that calls the transport and leaves self._login set *)
LogoutKeepsLogin ==
    /\ login' = login
    /\ last' = [Idle("logout") EXCEPT
                   !.calls = IF login THEN <<"logout">> ELSE <<>>]
    /\ ens' = "none"
    /\ UNCHANGED <<registered, enabled, available, existing, data,
                   last_setting_update, update_request, process_request,
                   setting_request, now, forced, hb, co,
                   coordinator_data, flow>>

Logout ==
    /\ login' = FALSE
    /\ last' = [Idle("logout") EXCEPT
                   !.calls = IF login THEN <<"logout">> ELSE <<>>]
    /\ ens' = "none"
    /\ UNCHANGED <<registered, enabled, available, existing, data,
                   last_setting_update, update_request, process_request,
                   setting_request, now, forced, hb, co,
                   coordinator_data, flow>>

TickStep(o) ==
    \E s \in {Deliver(FetchData(Begin, o))} :
        /\ Commit(s)
        /\ last' = Hist("tick", s,
                        IF ~s.ok THEN "raise"
                        ELSE IF Len(registered) = 0 THEN "empty" ELSE "data",
                        <<>>)
        /\ ens' = IF Len(registered) = 0 THEN ens ELSE Ensured(o)
        /\ forced' = (forced /\ ~s.fetchedS /\ s.ok)
        /\ UNCHANGED <<registered, enabled, co, flow>>

Tick(o) ==
    /\ IF Len(registered) = 0 THEN Unasked(o) ELSE Asked(o)
    /\ TickStep(o)
    /\ UNCHANGED <<now, hb>>

TickOk(o) ==
    /\ o.failAt = "none"
    /\ Tick(o)

HeartbeatTick(o) ==
    /\ o.failAt = "none"
    /\ IF Len(registered) = 0 THEN Unasked(o) ELSE Asked(o)
    /\ hb.n < MaxTick
    /\ TickStep(o)
    /\ now' = now + Heartbeat
    /\ hb' = [n |-> hb.n + 1,
              fetched |-> IF last'.fetchedS
                          THEN hb.fetched \cup {hb.n + 1} ELSE hb.fetched,
              pre |-> hb.pre /\ last'.ret = "data"
                          /\ DOMAIN setting_request' # {}]

Write(module_id, setting_id, value, o) ==
    /\ Asked(o)
    /\ \E s \in {WriteSetting(Begin, o, module_id, setting_id, value)} :
        /\ Commit(s)
        /\ last' = Hist("write", s, IF s.ok THEN "none" ELSE "raise",
                        <<module_id, setting_id, value>>)
        /\ ens' = Ensured(o)
        /\ forced' = (forced \/ s.ok)
        /\ UNCHANGED <<registered, enabled, now, hb, co, flow>>

Advance(d) ==
    /\ now + d <= MaxNow
    /\ now' = now + d
    /\ last' = Idle("other")
    /\ UNCHANGED <<login, registered, enabled, available, existing, data,
                   last_setting_update, update_request, process_request,
                   setting_request, ens, forced, hb, co,
                   coordinator_data, flow>>

-----------------------------------------------------------------------------
(* The coordinator with one consumer per scope: session, cache, write path *)

Next ==
    \/ \E e \in {"e1", "e3"} : RegisterEntity(e)
    \/ \E e \in {"e1", "e3"} : UnregisterEntity(e)
    \/ Logout
    \/ \E o \in TickOutcomes({FullCatalog}) : Tick(o)
    \/ \E t \in WriteTargets, v \in WriteValues, o \in WriteOutcomes({FullCatalog}) :
           Write(t[1], t[2], v, o)
    \/ \E d \in {SlowThreshold} : Advance(d)

Spec == Init /\ [][Next]_vars

(* The registry and the request maps: every consumer, enabled flags that   *)
(* change, a device whose catalog differs from login to login, and a       *)
(* transport that answers every call                                       *)

NextRegistry ==
    \/ \E e \in Entities : RegisterEntity(e)
    \/ \E e \in Entities : UnregisterEntity(e)
    \/ \E e \in Entities, b \in BOOLEAN : SetEnabled(e, b)
    \/ Logout
    \/ \E o \in TickOutcomes(DevCatalogs) : TickOk(o)

SpecRegistry == Init /\ [][NextRegistry]_vars

(* The heartbeat alone: every transport call succeeds, nothing is written *)

NextHeartbeat ==
    \/ \E e \in {"e1", "e3"} : RegisterEntity(e)
    \/ \E e \in {"e1", "e3"} : UnregisterEntity(e)
    \/ \E o \in TickOutcomes({FullCatalog}) : HeartbeatTick(o)

SpecHeartbeat == Init /\ [][NextHeartbeat]_vars

(* A device whose catalog shrinks and grows from login to login, with      *)
(* consumers of both scopes whose keys the reduced catalog lacks, logins   *)
(* made by ticks and by writes, and every transport call able to fail      *)

NextCatalog ==
    \/ \E e \in {"e2", "e3"} : RegisterEntity(e)
    \/ \E b \in BOOLEAN : SetEnabled("e3", b)
    \/ Logout
    \/ \E o \in TickOutcomes(DevCatalogs) : Tick(o)
    \/ \E v \in WriteValues, o \in WriteOutcomes(DevCatalogs) : Write("m1", "x", v, o)

SpecCatalog == Init /\ [][NextCatalog]_vars

-----------------------------------------------------------------------------
(* The coroutines at the granularity of their await points.  Between two   *)
(* awaited transport calls a coroutine runs without interruption (asyncio  *)
(* switches tasks only at an await that suspends); while it is suspended   *)
(* any other coroutine or synchronous method of the object may run.  Each  *)
(* operator below is the code from one point up to the next transport      *)
(* call, and yields the fields assigned and the call now awaited.          *)

At(s, pc, req) == [s |-> s, pc |-> pc, req |-> req]

(* lines 192-204, up to the call of line 199 *)
SettingPart(s) ==
    IF \/ s.last_setting_update = NoTimestamp
       \/ now - s.last_setting_update >= SlowThreshold
    THEN LET s1 == [s EXCEPT !.last_setting_update = now]
         IN  IF DOMAIN s1.setting_request # {}
             THEN At(s1, "get_setting_values", s1.setting_request)
             ELSE At(s1, "idle", EmptyDict)
    ELSE At(s, "idle", EmptyDict)

(* lines 179-187, up to the call of line 187 *)
ProcessPart(s) ==
    LET s1 == BuildIfStale(s)
    IN  IF DOMAIN s1.process_request # {}
        THEN At(s1, "get_process_data_values", s1.process_request)
        ELSE SettingPart(s1)

(* what follows `await self._ensure_login()`: line 179 or line 211 *)
AfterEnsureLogin(p, s) ==
    IF p = WriteTask
    THEN At(s, "set_setting_values", EmptyDict)
    ELSE ProcessPart(s)

(* lines 165-166 *)
EnterEnsureLogin(p, s) ==
    IF s.login
    THEN AfterEnsureLogin(p, s)
    ELSE At(s, "login", EmptyDict)

(* the code that runs when the awaited call returns normally *)
Returned(p, s, pc, req, o) ==
    CASE pc = "login" ->
           At(s, "get_settings", EmptyDict)
      [] pc = "get_settings" ->
           At([s EXCEPT !.existing[SCOPE_SETTING] = o.cat[SCOPE_SETTING]],
              "get_process_data", EmptyDict)
      [] pc = "get_process_data" ->
           At([s EXCEPT !.existing[SCOPE_PROCESS_DATA] = o.cat[SCOPE_PROCESS_DATA],
                        !.update_request = TRUE],
              "device_info", EmptyDict)
      [] pc = "device_info" ->
           AfterEnsureLogin(p, [s EXCEPT !.login = TRUE])
      [] pc = "get_process_data_values" ->
           SettingPart([s EXCEPT !.data[SCOPE_PROCESS_DATA] =
                                     DictUpdate(@, Response(req, o.v))])
      [] pc = "get_setting_values" ->
           At([s EXCEPT !.data[SCOPE_SETTING] = DictUpdate(@, Response(req, o.v))],
              "idle", EmptyDict)
      [] pc = "set_setting_values" ->
           IF WriteArg.module_id \in DOMAIN s.data[SCOPE_SETTING]
           THEN At(SetUpdatedData(
                       [s EXCEPT !.data[SCOPE_SETTING][WriteArg.module_id] =
                                     DictUpdate(@, WriteArg.setting_id :> WriteArg.value),
                                 !.last_setting_update = NoTimestamp]),
                   "idle", EmptyDict)
           ELSE At(s, "idle", EmptyDict)

(* a refresh that reached `return self._data` (line 204) is delivered *)
Finished(p, r) ==
    IF p \in TickTasks /\ r.pc = "idle"
    THEN Deliver(Return(r.s, "_data"))
    ELSE r.s

AsyncOutcomes == [fail : BOOLEAN, cat : {FullCatalog}, v : Values]

(* a scheduler that starts a refresh whether or not one is running *)
ScheduleAlways(t) == TRUE

(* The scheduling of refreshes by the DataUpdateCoordinator base class:    *)
(* a refresh is started only when none is running.                         *)
Schedule(t) == \A u \in TickTasks : co[u].pc = "idle"

StartTick(t) ==
    /\ co[t].pc = "idle"
    /\ Schedule(t)
    /\ Len(registered) # 0
    /\ LET r == EnterEnsureLogin(t, Begin)
       IN  /\ Commit(Finished(t, r))
           /\ co' = [co EXCEPT ![t] = Suspended(r.pc, r.req)]
    /\ UNCHANGED <<registered, enabled, now, last, ens, forced, hb, flow>>

StartWrite ==
    /\ co[WriteTask].pc = "idle"
    /\ LET r == EnterEnsureLogin(WriteTask, Begin)
       IN  /\ Commit(r.s)
           /\ co' = [co EXCEPT ![WriteTask] = Suspended(r.pc, r.req)]
    /\ UNCHANGED <<registered, enabled, now, last, ens, forced, hb, flow>>

(* The awaited call of coroutine p returns or raises.  A write that stored *)
(* its value is noted on every settings fetch still outstanding.           *)
Resume(p, o) ==
    /\ co[p].pc # "idle"
    /\ IF o.fail
       THEN /\ co' = [co EXCEPT ![p] = Suspended("idle", EmptyDict)]
            /\ UNCHANGED <<login, existing, data, last_setting_update,
                           update_request, process_request, setting_request,
                           available, coordinator_data>>
       ELSE LET r == Returned(p, Begin, co[p].pc, co[p].req, o)
                stored == /\ co[p].pc = "set_setting_values"
                          /\ r.s.data # data
            IN  /\ Commit(Finished(p, r))
                /\ co' = [q \in Tasks |->
                            IF q = p
                            THEN Suspended(r.pc, r.req)
                            ELSE IF stored /\ co[q].pc = "get_setting_values"
                                 THEN [co[q] EXCEPT !.pre =
                                          {<<WriteArg.module_id, WriteArg.setting_id>>}]
                                 ELSE co[q]]
    /\ UNCHANGED <<registered, enabled, now, last, ens, forced, hb, flow>>

NextAsync ==
    \/ \E e \in {"e1", "e3"} : RegisterEntity(e)
    \/ Logout
    \/ \E t \in TickTasks : StartTick(t)
    \/ StartWrite
    \/ \E p \in Tasks, o \in AsyncOutcomes : Resume(p, o)

SpecAsync == Init /\ [][NextAsync]_vars

-----------------------------------------------------------------------------
(* The session under failures: consumers of both scopes stay registered,   *)
(* every transport call of a tick or of a write may fail, the session may  *)
(* be closed, and the slow-cadence threshold may elapse.                   *)

NextSession ==
    \/ \E e \in {"e1", "e3"} : RegisterEntity(e)
    \/ Logout
    \/ \E o \in TickOutcomes({FullCatalog}) : Tick(o)
    \/ \E t \in WriteTargets, v \in WriteValues, o \in WriteOutcomes({FullCatalog}) :
           Write(t[1], t[2], v, o)
    \/ \E d \in {SlowThreshold} : Advance(d)

SpecSession == Init /\ [][NextSession]_vars

-----------------------------------------------------------------------------
(* The live coordinator: consumers are registered and stay, one of them is *)
(* enabled and disabled, every transport call succeeds, and the slow       *)
(* cadence threshold may elapse between two ticks.                         *)

NextLive ==
    \/ \E e \in {"e1", "e3"} : RegisterEntity(e)
    \/ \E b \in BOOLEAN : SetEnabled("e3", b)
    \/ \E o \in TickOutcomes({FullCatalog}) : TickOk(o)
    \/ \E d \in {SlowThreshold} : Advance(d)

SpecLive == Init /\ [][NextLive]_vars

-----------------------------------------------------------------------------
(* The config flow (config_flow.py).  async_step_user resets the errors,   *)
(* tests the connection when the submitted host is not configured yet,     *)
(* and either creates the entry or shows the form again with the errors    *)
(* collected on the way.  tested records how the connection test ended     *)
(* ("no" when none was made), dup whether the host was configured before.  *)

configured_instances(f) == f.configured

ShowForm(errors, tested, dup) ==
    [type |-> "form", errors |-> errors, tested |-> tested, dup |-> dup]

CreateEntry(tested) ==
    [type |-> "create_entry", errors |-> NoErrors, tested |-> tested, dup |-> FALSE]

Caught(outcome) ==
    CASE outcome = "PlenticoreAuthenticationException" -> (CONF_NAME :> "invalid_auth")
      [] outcome \in {"ClientError", "TimeoutError"} -> (CONF_NAME :> "cannot_connect")
      [] OTHER -> ("base" :> "unknown")

async_step_user(f, user_input, outcome) ==
    IF user_input = NoInput
    THEN ShowForm(NoErrors, "no", FALSE)
    ELSE IF user_input \notin configured_instances(f)
         THEN IF outcome = "ok"
              THEN CreateEntry(outcome)
              ELSE ShowForm(DictUpdate(Caught(outcome),
                                       CONF_NAME :> "already_configured"),
                            outcome, FALSE)
         ELSE ShowForm(CONF_NAME :> "already_configured", "no", TRUE)

(* The flow manager adds the entry a create_entry result describes *)
AddEntry(f, user_input, result) ==
    IF result.type = "create_entry" THEN f.configured \cup {user_input}
    ELSE f.configured

StepUser(user_input, outcome) ==
    /\ \E r \in {async_step_user(flow, user_input, outcome)} :
          flow' = [configured |-> AddEntry(flow, user_input, r),
                   user_input |-> user_input, result |-> r]
    /\ UNCHANGED <<login, registered, enabled, available, existing, data,
                   last_setting_update, update_request, process_request,
                   setting_request, now, last, ens, forced, hb, co,
                   coordinator_data>>

NextFlow ==
    \E user_input \in Hosts \cup {NoInput}, outcome \in TestOutcomes :
        StepUser(user_input, outcome)

SpecFlow == Init /\ [][NextFlow]_vars

TypeOK ==
    /\ login \in BOOLEAN
    /\ update_request \in BOOLEAN
    /\ Len(registered) <= MaxRegistered
    /\ Range(registered) \subseteq Entities
    /\ DOMAIN data = Scopes
    /\ now \in 0..(MaxNow + MaxTick * Heartbeat)

-----------------------------------------------------------------------------
(* Reading the cache: the state property of the sensors *)

NotFound == "NotFound"

GetValue(scope, module_id, data_id) ==
    IF module_id \in DOMAIN data[scope] /\ data_id \in DOMAIN data[scope][module_id]
    THEN data[scope][module_id][data_id]
    ELSE NotFound

NumLogin(calls) == Cardinality({i \in 1..Len(calls) : calls[i] = "login"})

EnsureCalled(h) == h.op = "write" \/ (h.op = "tick" /\ registered # <<>>)

Keys(request) ==
    UNION {{<<m, d>> : d \in Range(request[m])} : m \in DOMAIN request}

Leaves(cache) ==
    UNION {{<<m, d>> : d \in DOMAIN cache[m]} : m \in DOMAIN cache}

-----------------------------------------------------------------------------
(* C1: when the transport acknowledges the write issued by                 *)
(* write_setting(m, d, v), write_setting returns normally and reading the  *)
(* SETTING cache at (m, d) right afterwards yields v, whatever the cache   *)
(* held before, also when it held nothing for module m.                    *)
C1_WriteThenRead ==
    (last.op = "write" /\ last.acked) =>
        /\ last.ok
        /\ GetValue(SCOPE_SETTING, last.arg[1], last.arg[2]) = last.arg[3]

(* C2: when the transport write of write_setting fails, the error reaches  *)
(* the caller and the cache is, in both scopes and every leaf, what it was *)
(* before the call.                                                        *)
C2_FailedWriteKeepsCache ==
    [][(/\ last'.op = "write"
        /\ last'.calls # <<>>
        /\ last'.calls[Len(last'.calls)] = "set_setting_values"
        /\ ~last'.acked)
       => (~last'.ok /\ data' = data)]_vars

C2_Witness ==
    /\ last.op = "write"
    /\ ~last.ok
    /\ ~last.acked
    /\ last.calls = <<"set_setting_values">>
    /\ data[SCOPE_SETTING] # EmptyDict
    /\ data[SCOPE_PROCESS_DATA] # EmptyDict

(* C3: after a write_setting that succeeded, the first tick that has a     *)
(* non-empty SETTING request fetches the settings, however little time     *)
(* has passed since the timestamp was last stamped (the ticks in between   *)
(* ran with a consumer registered and none of them raised).                *)
C3_ForcedRefetch ==
    [][(/\ forced
        /\ last'.op = "tick"
        /\ last'.ok
        /\ registered # <<>>
        /\ DOMAIN setting_request' # {})
       => last'.fetchedS]_vars

(* C4: with a heartbeat of 10 and a threshold of 300, a non-empty SETTING  *)
(* request at every tick, a transport that answers and no write, the       *)
(* settings are fetched on tick 1, on none of the ticks 2..30, and again   *)
(* on tick 31.                                                             *)
C4_SlowCadence ==
    hb.pre =>
        \A n \in 1..hb.n : n <= 31 => (n \in hb.fetched <=> n \in {1, 31})

C4_Witness ==
    /\ hb.pre
    /\ hb.n >= 31
    /\ hb.fetched = {1, 31}
    /\ last.op = "tick"

(* C5: a tick merges leaf by leaf: every cached (module, data id) leaf     *)
(* that is not part of the tick's fetch result is still cached afterwards, *)
(* with the value it had.                                                  *)
FetchedKeys(h, scope) ==
    IF scope = SCOPE_PROCESS_DATA
    THEN IF h.fetchedP THEN Keys(process_request') ELSE {}
    ELSE IF h.fetchedS THEN Keys(setting_request') ELSE {}

C5_LeafMerge ==
    [][last'.op = "tick" =>
        \A scope \in Scopes :
            \A k \in Leaves(data[scope]) \ FetchedKeys(last', scope) :
                /\ k \in Leaves(data'[scope])
                /\ data'[scope][k[1]][k[2]] = data[scope][k[1]][k[2]]]_vars

(* C6: the process-data merge of a tick leaves the SETTING scope of the    *)
(* cache as it was, and the settings merge of a tick and write_setting     *)
(* leave the TELEMETRY scope as it was.                                    *)
C6_CrossScope ==
    [][/\ last'.op = "tick" =>
            /\ last'.mid[SCOPE_SETTING] = data[SCOPE_SETTING]
            /\ data'[SCOPE_PROCESS_DATA] = last'.mid[SCOPE_PROCESS_DATA]
       /\ last'.op = "write" =>
            data'[SCOPE_PROCESS_DATA] = data[SCOPE_PROCESS_DATA]]_vars

C6_Witness ==
    /\ last.op = "tick"
    /\ last.fetchedP
    /\ last.fetchedS
    /\ last.mid[SCOPE_SETTING] # EmptyDict
    /\ last.mid[SCOPE_SETTING] # data[SCOPE_SETTING]
    /\ data[SCOPE_PROCESS_DATA] # EmptyDict

(* C7: after the request-building step of a tick, the request of each      *)
(* scope holds exactly the keys of the registered consumers of that scope  *)
(* that are enabled and listed in the catalog, whatever registrations,     *)
(* unregistrations and changes of the enabled flags came before.           *)
Wanted(scope) ==
    {<<Entity[e].module_id, Entity[e].data_id>> :
        e \in {x \in Range(registered) :
                  /\ Entity[x].scope = scope
                  /\ enabled[x]
                  /\ Entity[x].module_id \in DOMAIN existing[scope]
                  /\ Entity[x].data_id \in existing[scope][Entity[x].module_id]}}

C7_RequestExact ==
    (last.op = "tick" /\ last.ok /\ registered # <<>>) =>
        /\ Keys(process_request) = Wanted(SCOPE_PROCESS_DATA)
        /\ Keys(setting_request) = Wanted(SCOPE_SETTING)

(* C8: _ensure_login called twice in a row, with no logout in between and  *)
(* the first call returning normally, makes one transport login call in    *)
(* all: the call that logs in makes exactly one, and the call after a      *)
(* completed one makes no login, catalog or device-info call.              *)
C8_EnsureIdempotent ==
    [][EnsureCalled(last') =>
        /\ ens = "ok" =>
              /\ ens' = "ok"
              /\ Range(last'.calls) \cap LoginCalls = {}
        /\ (ens # "ok" /\ ens' = "ok") => NumLogin(last'.calls) = 1]_vars

C8_Witness ==
    /\ last.op = "write"
    /\ ens = "ok"
    /\ last.calls = <<"set_setting_values">>
    /\ login

(* C9: a tick with no registered consumer makes no transport call, leaves  *)
(* the session flag, the catalog, the requests, the settings timestamp and *)
(* the cache as they were, and returns normally.                           *)
C9_EmptyTick ==
    [][(last'.op = "tick" /\ registered = <<>>) =>
        /\ last'.calls = <<>>
        /\ last'.ok
        /\ UNCHANGED <<login, existing, process_request, setting_request,
                       last_setting_update, data>>]_vars

C9_Witness ==
    /\ last.op = "tick"
    /\ last.ret = "empty"
    /\ registered = <<>>
    /\ login
    /\ update_request
    /\ Keys(process_request) # {}
    /\ data[SCOPE_PROCESS_DATA] # EmptyDict

(* C10: a tick whose transport login fails raises, made that one login     *)
(* call and no other, leaves the session logged out and the cache as it    *)
(* was; and a tick with a registered consumer that starts logged out       *)
(* begins with a transport login call.                                     *)
C10_LoginFailure ==
    [][/\ (/\ last'.op = "tick"
           /\ ~last'.ok
           /\ last'.calls # <<>>
           /\ last'.calls[Len(last'.calls)] = "login")
          => (last'.calls = <<"login">> /\ ~login' /\ data' = data)
       /\ (last'.op = "tick" /\ registered # <<>> /\ ~login)
          => (last'.calls # <<>> /\ last'.calls[1] = "login")]_vars

C10_Witness ==
    /\ last.op = "tick"
    /\ ~last.ok
    /\ last.calls = <<"login">>
    /\ ~login
    /\ ens = "fail"
    /\ data[SCOPE_PROCESS_DATA] # EmptyDict

-----------------------------------------------------------------------------
(* The request-building step of a tick, seen from outside: it runs when    *)
(* the tick gets past _ensure_login with the staleness flag set (a login   *)
(* made by the tick itself sets it), and it clears the flag.               *)
Rebuilds ==
    /\ last'.op = "tick"
    /\ registered # <<>>
    /\ update_request \/ ~login
    /\ ~update_request'

InCatalog(e, exist) ==
    /\ Entity[e].module_id \in DOMAIN exist[Entity[e].scope]
    /\ Entity[e].data_id \in exist[Entity[e].scope][Entity[e].module_id]

(* C11: after every rebuild of the requests, every registered consumer,    *)
(* enabled or not, has its available flag set, and the flag is true        *)
(* exactly when the consumer's key is in the catalog of its scope that the *)
(* rebuild used.                                                           *)
C11_AvailableIffCatalog ==
    [][Rebuilds =>
        \A e \in Range(registered) :
            /\ e \in DOMAIN available'
            /\ available'[e] <=> InCatalog(e, existing')]_vars

CatalogKeys(catalog) ==
    UNION {{<<m, d>> : d \in catalog[m]} : m \in DOMAIN catalog}

(* C12: when the catalog was refreshed by a login and no longer lists the  *)
(* key of a registered, enabled consumer, the next tick that gets past     *)
(* _ensure_login rebuilds the requests and sets the consumer's available   *)
(* flag to false; and the requests that this tick and every later tick     *)
(* fetch with hold no key that the catalog lacks.                          *)
C12_AvailabilityFlips ==
    [][(last'.op = "tick" /\ registered # <<>> /\ ens' = "ok") =>
        /\ ~update_request'
        /\ (update_request \/ ~login) =>
              \A e \in Range(registered) :
                  (enabled[e] /\ ~InCatalog(e, existing')) =>
                      (e \in DOMAIN available' /\ ~available'[e])
        /\ Keys(process_request') \subseteq CatalogKeys(existing'[SCOPE_PROCESS_DATA])
        /\ Keys(setting_request') \subseteq CatalogKeys(existing'[SCOPE_SETTING])]_vars

C12_Witness ==
    /\ last.op = "tick"
    /\ last.ok
    /\ last.calls # <<>>
    /\ last.calls[1] = "login"
    /\ \E e \in Range(registered) :
          /\ enabled[e]
          /\ ~InCatalog(e, existing)
          /\ e \in DOMAIN available
          /\ ~available[e]
          /\ <<Entity[e].module_id, Entity[e].data_id>> \in Leaves(data[Entity[e].scope])

(* C13: in every reachable state each key of the PROCESS request and of    *)
(* the SETTING request is listed in the current catalog of that scope,     *)
(* also after a login (made by a tick or by write_setting) that brought a  *)
(* different catalog.                                                      *)
C13_RequestWithinCatalog ==
    /\ Keys(process_request) \subseteq CatalogKeys(existing[SCOPE_PROCESS_DATA])
    /\ Keys(setting_request) \subseteq CatalogKeys(existing[SCOPE_SETTING])

(* C14: in every reachable state each leaf of the cache belongs to a key   *)
(* that the current catalog of its scope lists.                            *)
C14_CacheWithinCatalog ==
    \A scope \in Scopes :
        Leaves(data[scope]) \subseteq CatalogKeys(existing[scope])

-----------------------------------------------------------------------------
InFlight(p) == co[p].pc # "idle"

C16_WriteSerialized ==
    [][/\ (co'[WriteTask] # co[WriteTask] /\ \E t \in TickTasks : InFlight(t))
          => (data' = data /\ last_setting_update' = last_setting_update)
       /\ \A t \in TickTasks :
             /\ (co'[t] # co[t] /\ InFlight(WriteTask)) => data' = data
             /\ (co'[t].pc # co[t].pc /\ co[t].pre # {}) =>
                   \A k \in co[t].pre :
                       /\ k \in Leaves(data'[SCOPE_SETTING])
                       /\ data'[SCOPE_SETTING][k[1]][k[2]] =
                              data[SCOPE_SETTING][k[1]][k[2]]]_vars

(* C17: exactly one login is active at a time: a transport login call is   *)
(* issued only when no other login call of the coordinator is outstanding  *)
(* and no login has succeeded since the last logout (the session is not    *)
(* logged in and no coroutine is past the login call of its                *)
(* _ensure_login).                                                         *)
PastLogin(p) == co[p].pc \in {"get_settings", "get_process_data", "device_info"}

C17_OneLogin ==
    [][\A p \in Tasks :
          (co'[p].pc = "login" /\ co[p].pc # "login") =>
              /\ \A q \in Tasks \ {p} : co[q].pc # "login"
              /\ ~login
              /\ \A q \in Tasks : ~PastLogin(q)]_vars

-----------------------------------------------------------------------------
NoDuplicates(seq) ==
    \A i, j \in 1..Len(seq) : i # j => seq[i] # seq[j]

(* C18: registration is idempotent by identity: the registry holds no      *)
(* consumer twice, and no request lists a data id twice under one module.  *)
C18_RegisterIdempotent ==
    /\ NoDuplicates(registered)
    /\ \A m \in DOMAIN process_request : NoDuplicates(process_request[m])
    /\ \A m \in DOMAIN setting_request : NoDuplicates(setting_request[m])

(* C19: the settings timestamp is stamped only by a tick that fetched and  *)
(* merged the settings: a tick that did not (its SETTING request was empty *)
(* or its settings fetch failed) leaves the timestamp as it was.           *)
C19_StampAfterFetch ==
    [][(last'.op = "tick" /\ ~last'.fetchedS)
       => last_setting_update' = last_setting_update]_vars

(* C20: logout() of a session that is not logged in makes no transport     *)
(* call and changes nothing; of a logged-in session it clears the flag and *)
(* calls the transport logout once; and the first tick with a registered   *)
(* consumer after a logout starts with a transport login and, when it      *)
(* succeeds, has queried both catalogs and set the flag again.             *)
C20_Logout ==
    [][/\ (last'.op = "logout" /\ ~login) =>
             /\ last'.calls = <<>>
             /\ UNCHANGED <<login, registered, enabled, available, existing, data,
                            last_setting_update, update_request, process_request,
                            setting_request>>
       /\ (last'.op = "logout" /\ login) =>
             /\ ~login'
             /\ last'.calls = <<"logout">>
       /\ (ens = "none" /\ last'.op = "tick" /\ registered # <<>>) =>
             /\ last'.calls # <<>>
             /\ last'.calls[1] = "login"
             /\ last'.ok =>
                   /\ Len(last'.calls) >= 4
                   /\ SubSeq(last'.calls, 1, 4) =
                          <<"login", "get_settings", "get_process_data", "device_info">>
                   /\ login'
                   /\ existing' \in DevCatalogs
                   /\ ~update_request']_vars

C20_Witness ==
    /\ last.op = "logout"
    /\ last.calls = <<"logout">>
    /\ ~login
    /\ registered # <<>>
    /\ data[SCOPE_PROCESS_DATA] # EmptyDict

-----------------------------------------------------------------------------
(* C21: unregistering a consumer, the last one included, makes no          *)
(* transport call and leaves the session flag, the catalog and the cache   *)
(* as they were; the session flag is cleared by logout() alone.            *)
C21_UnregisterKeepsSession ==
    [][/\ Len(registered') < Len(registered) =>
             /\ last'.calls = <<>>
             /\ UNCHANGED <<login, existing, data>>
       /\ (login /\ ~login') => last'.op = "logout"]_vars

C21_Witness ==
    /\ last.op = "other"
    /\ now = 0
    /\ registered = <<>>
    /\ update_request
    /\ login
    /\ data[SCOPE_PROCESS_DATA] # EmptyDict

LastCall(h) == IF h.calls = <<>> THEN "none" ELSE h.calls[Len(h.calls)]

(* C22: the catalog refresh is atomic: whenever the catalog changes, it    *)
(* becomes, for both scopes, the catalog the device returned; and when one *)
(* of the two catalog queries fails the catalog is left as it was for both *)
(* scopes.                                                                 *)
C22_CatalogAtomic ==
    [][/\ existing' # existing => existing' \in DevCatalogs
       /\ (~last'.ok /\ LastCall(last') \in {"get_settings", "get_process_data"})
             => existing' = existing]_vars

(* C23: a write_setting whose transport write was acknowledged has, when   *)
(* it returns, notified the listeners with the cache that holds the        *)
(* written value; a write_setting whose transport write was not            *)
(* acknowledged notifies nobody.                                           *)
C23_WriteEmits ==
    [][last'.op = "write" =>
        /\ last'.acked =>
              /\ last'.notified
              /\ coordinator_data' = "_data"
              /\ <<last'.arg[1], last'.arg[2]>> \in Leaves(data'[SCOPE_SETTING])
              /\ data'[SCOPE_SETTING][last'.arg[1]][last'.arg[2]] = last'.arg[3]
        /\ ~last'.acked =>
              /\ ~last'.notified
              /\ coordinator_data' = coordinator_data]_vars

(* C26: after every tick that did not raise, the tick without consumers    *)
(* included, the listeners were notified and what they read is the         *)
(* two-scope cache.                                                        *)
C26_TickEmitsCache ==
    (last.op = "tick" /\ last.ok) =>
        (last.notified /\ coordinator_data = "_data")

-----------------------------------------------------------------------------
(* C24: when the submitted host is not configured and the connection test  *)
(* fails, the user step creates no entry and shows the form with exactly   *)
(* one error naming the cause: password/invalid_auth for an authentication *)
(* failure, host/cannot_connect for a timeout or a client error.           *)
C24_TestFailureError ==
    /\ flow.result.tested = "PlenticoreAuthenticationException" =>
          /\ flow.result.type = "form"
          /\ flow.user_input \notin flow.configured
          /\ flow.result.errors = ("password" :> "invalid_auth")
    /\ flow.result.tested \in {"ClientError", "TimeoutError"} =>
          /\ flow.result.type = "form"
          /\ flow.user_input \notin flow.configured
          /\ flow.result.errors = ("host" :> "cannot_connect")

(* C25: a host that is already configured is not tested, creates no entry  *)
(* and shows the form with errors exactly base/already_configured; a host  *)
(* that is not configured and passes the connection test creates an entry  *)
(* and reports no already_configured error.                                *)
C25_DuplicateHost ==
    /\ flow.result.dup =>
          /\ flow.result.tested = "no"
          /\ flow.result.type = "form"
          /\ flow.result.errors = ("base" :> "already_configured")
    /\ flow.result.tested = "ok" =>
          /\ flow.result.type = "create_entry"
          /\ flow.user_input \in flow.configured
          /\ \A k \in DOMAIN flow.result.errors :
                 flow.result.errors[k] # "already_configured"

-----------------------------------------------------------------------------
(* A tick whose telemetry (settings) fetch was made and did not answer *)
TelemetryFailed(h) ==
    /\ h.op = "tick"
    /\ ~h.fetchedP
    /\ "get_process_data_values" \in Range(h.calls)

SettingFailed(h) ==
    /\ h.op = "tick"
    /\ ~h.fetchedS
    /\ "get_setting_values" \in Range(h.calls)

SettingsDue ==
    \/ last_setting_update = NoTimestamp
    \/ now - last_setting_update >= SlowThreshold

(* C27 as stated: when the TELEMETRY fetch of a tick fails, the same tick  *)
(* still performs the SETTING check and, if the slow-cadence threshold has *)
(* elapsed and the SETTING RequestMap is non-empty, fetches the settings;  *)
(* a failing SETTING fetch does not discard the telemetry values merged in *)
(* that tick.                                                              *)
C27_ScopeIsolation ==
    [][/\ (TelemetryFailed(last') /\ SettingsDue /\ DOMAIN setting_request' # {})
             => last'.fetchedS
       /\ SettingFailed(last') =>
             data'[SCOPE_PROCESS_DATA] = last'.mid[SCOPE_PROCESS_DATA]]_vars

(* C27, amended: a failed TELEMETRY fetch ends the tick with an update     *)
(* failure: the SETTING check is not made in that tick (no settings fetch, *)
(* settings timestamp and cache unchanged), whatever the time elapsed and  *)
(* the SETTING RequestMap; a failing SETTING fetch ends the tick with the  *)
(* telemetry values merged in that tick kept in the cache.                 *)
C27_TelemetryFailureEndsTick ==
    [][/\ TelemetryFailed(last') =>
             /\ ~last'.ok
             /\ ~last'.fetchedS
             /\ "get_setting_values" \notin Range(last'.calls)
             /\ last_setting_update' = last_setting_update
             /\ data' = data
       /\ SettingFailed(last') =>
             /\ ~last'.ok
             /\ data' = last'.mid
             /\ DOMAIN process_request' # {} => last'.fetchedP]_vars

C27_Witness ==
    /\ TelemetryFailed(last)
    /\ DOMAIN setting_request # {}
    /\ last_setting_update = NoTimestamp
    /\ now = SlowThreshold

-----------------------------------------------------------------------------
(* The transport calls of a complete login, in the order _ensure_login and *)
(* _udpate_existing_data make them                                         *)
LoginSequence == <<"login", "get_settings", "get_process_data", "device_info">>

(* An operation whose transport login succeeded and whose catalog or       *)
(* device-info query then failed                                           *)
LoginAttemptFailed(h) ==
    /\ h.calls # <<>>
    /\ Head(h.calls) = "login"
    /\ ~h.ok
    /\ LastCall(h) \in {"get_settings", "get_process_data", "device_info"}

(* An operation that needs the session: a write, or a tick with consumers *)
NeedsSession(h) == h.op = "write" \/ (h.op = "tick" /\ h.ret # "empty")

(* C28 as stated: the logged-in flag becomes true only by a transport      *)
(* login followed by both catalog queries and the device-info query; when  *)
(* a catalog or device-info query fails after the transport login, the     *)
(* flag stays false and the RequestMap is not marked stale by the attempt, *)
(* and the next tick or write starts with the transport login again.       *)
C28_LoginAtomic ==
    [][/\ (~login /\ login') =>
             /\ Len(last'.calls) >= Len(LoginSequence)
             /\ SubSeq(last'.calls, 1, Len(LoginSequence)) = LoginSequence
             /\ existing' \in DevCatalogs
       /\ LoginAttemptFailed(last') =>
             /\ ~login'
             /\ update_request' = update_request
       /\ (~login /\ NeedsSession(last')) =>
             /\ last'.calls # <<>>
             /\ Head(last'.calls) = "login"
             /\ "logout" \notin Range(last'.calls)]_vars

(* C28, amended: as stated, except that the attempt marks the RequestMap   *)
(* stale when it is the device-info query that fails, because the catalog  *)
(* refresh before it has completed; an attempt whose catalog query fails   *)
(* leaves the stale mark as it was.                                        *)
C28_LoginComplete ==
    [][/\ (~login /\ login') =>
             /\ Len(last'.calls) >= Len(LoginSequence)
             /\ SubSeq(last'.calls, 1, Len(LoginSequence)) = LoginSequence
             /\ existing' \in DevCatalogs
       /\ LoginAttemptFailed(last') =>
             /\ ~login'
             /\ update_request' = (update_request \/ LastCall(last') = "device_info")
       /\ (~login /\ NeedsSession(last')) =>
             /\ last'.calls # <<>>
             /\ Head(last'.calls) = "login"
             /\ "logout" \notin Range(last'.calls)]_vars

C28_Witness ==
    /\ LoginAttemptFailed(last)
    /\ LastCall(last) = "device_info"
    /\ ~login
    /\ update_request
    /\ Len(registered) = 2
    /\ NoDuplicates(registered)
    /\ DOMAIN process_request # {}
    /\ DOMAIN setting_request # {}

-----------------------------------------------------------------------------
(* C29: when every transport call succeeds, a registered and enabled       *)
(* SETTING consumer whose key is in the catalog has its value in the cache *)
(* no later than the first tick at which the settings are due (300 units   *)
(* elapsed since the settings timestamp, or no timestamp yet): after such  *)
(* a tick the value is cached.                                             *)
C29_SettingCachedWhenDue ==
    [][(last'.op = "tick" /\ last'.ok /\ SettingsDue) =>
          \A e \in Range(registered) :
              (/\ Entity[e].scope = SCOPE_SETTING
               /\ enabled[e]
               /\ InCatalog(e, existing'))
                  => <<Entity[e].module_id, Entity[e].data_id>>
                         \in Leaves(data'[SCOPE_SETTING])]_vars

====
